---- MODULE Spec2Model ----
(***************************************************************************)
(* ToluStock stock ledger: products, stock movements and the operations of *)
(* StockManager (src/src/logic/stock_logic.py) over the SQLite store of    *)
(* DatabaseManager (src/src/logic/db.py), with the session of UserManager  *)
(* (src/src/logic/user.py).                                                *)
(*                                                                         *)
(* Conventions.  A nullable column or an Optional value holds <<>> for     *)
(* NULL / None and <<v>> for the value v.  Product names, category names   *)
(* and SKUs are sequences of ASCII codes, so that slicing, upper-casing,   *)
(* isalnum and the ORDER BY comparison are computed.  Free-text movement   *)
(* columns are TLA+ strings (only equality is ever used on them).          *)
(***************************************************************************)
EXTENDS Integers, Sequences, FiniteSets, TLC

VARIABLES
    products,       \* table products: id -> row
    product_seq,    \* AUTOINCREMENT counter of products (ids are never reused)
    movements,      \* table stock_movements: sequence of rows, id = position
    categories,     \* table categories: id -> row
    suppliers,      \* table suppliers: id -> row
    supplier_seq,   \* AUTOINCREMENT counter of suppliers
    current_user,   \* user_manager.current_user of each running application
    frames,         \* where each running application is inside a call
    now,            \* wall clock, seconds since 01-01 00:00:00
    last            \* the call that returned last: caller, operation, product id, result, console line

vars == <<products, product_seq, movements, categories, suppliers, supplier_seq,
          current_user, frames, now, last>>

\* the running applications that share the database file
Procs == {1, 2}

\* ------------------------------------------------------------------ bounds
MaxProducts == 2
MaxMovements == 2
MaxQty == 2

\* ------------------------------------------------------------ value helpers
NULL == <<>>

Some(v) == <<v>>

IsNull(o) == o = <<>>

Val(o) == o[1]

Abs(i) == IF i < 0 THEN -i ELSE i

\* str.upper() on ASCII codes
Upper(s) == [i \in 1..Len(s) |-> IF s[i] >= 97 /\ s[i] <= 122 THEN s[i] - 32 ELSE s[i]]

\* str.isalnum() on one ASCII code
IsAlnum(c) == \/ (c >= 48 /\ c <= 57)
              \/ (c >= 65 /\ c <= 90)
              \/ (c >= 97 /\ c <= 122)

\* s[:n]
Take(s, n) == SubSeq(s, 1, IF Len(s) < n THEN Len(s) ELSE n)

\* ''.join(c for c in s if c.isalnum())
RECURSIVE KeepAlnum(_)
KeepAlnum(s) ==
    IF s = <<>> THEN <<>>
    ELSE (IF IsAlnum(Head(s)) THEN <<Head(s)>> ELSE <<>>) \o KeepAlnum(Tail(s))

\* two decimal digits, as "%02d"
Digits2(n) == <<48 + (n \div 10), 48 + (n % 10)>>

\* datetime.now().strftime("%m%d%H%M"), the clock staying within January
Strftime_mdHM(t) ==
    Digits2(1) \o Digits2(1 + (t \div 86400)) \o Digits2((t \div 3600) % 24)
               \o Digits2((t \div 60) % 60)

\* variant: the non-alphanumeric characters are dropped before the slice
generate_sku_FilterFirst(product_name, category, t) ==
    LET category_prefix == IF category # <<>> THEN Upper(Take(category, 3))
                           ELSE <<71, 69, 78>>
        product_prefix == Upper(Take(KeepAlnum(product_name), 4))
    IN category_prefix \o <<45>> \o product_prefix \o <<45>> \o Strftime_mdHM(t)

\* utils.generate_sku, t the reading of datetime.now()
generate_sku(product_name, category, t) ==
    LET category_prefix == IF category # <<>> THEN Upper(Take(category, 3))
                           ELSE <<71, 69, 78>>
        product_prefix == Upper(KeepAlnum(Take(product_name, 4)))
    IN category_prefix \o <<45>> \o product_prefix \o <<45>> \o Strftime_mdHM(t)

\* --------------------------------------------------------------- the session
\* rows of table users: the default admin of init_database and two users
\* made with create_user
UserRows ==
    { [id |-> 1, role |-> "admin"],
      [id |-> 2, role |-> "user"],
      [id |-> 3, role |-> "manager"] }

user_permissions ==
    {"view_stock", "view_customers", "view_suppliers", "view_reports", "export_data"}

manager_permissions ==
    user_permissions \cup
    {"add_stock", "edit_stock", "delete_stock",
     "add_customers", "edit_customers", "delete_customers",
     "add_suppliers", "edit_suppliers", "delete_suppliers",
     "backup_data", "manage_settings"}

\* variant: every caller holds every permission
has_permission_Everyone(user, permission) == TRUE

has_permission(user, permission) ==
    IF IsNull(user) THEN FALSE
    ELSE LET role == Val(user).role
         IN IF role = "admin" THEN TRUE
            ELSE IF role = "manager" THEN permission \in manager_permissions
            ELSE IF role = "user" THEN permission \in user_permissions
            ELSE FALSE

\* ------------------------------------------------------------------ the store
\* default categories inserted by init_database: Electronics, Clothing,
\* Food & Beverages, Office Supplies, Other
DefaultCategories ==
    <<  [name |-> <<69,108,101,99,116,114,111,110,105,99,115>>],
        [name |-> <<67,108,111,116,104,105,110,103>>],
        [name |-> <<70,111,111,100,32,38,32,66,101,118,101,114,97,103,101,115>>],
        [name |-> <<79,102,102,105,99,101,32,83,117,112,112,108,105,101,115>>],
        [name |-> <<79,116,104,101,114>>] >>

\* SELECT ... FROM products p WHERE p.sku = ?  (rows as ids)
get_product_by_sku(prods, sku) ==
    LET hits == {i \in DOMAIN prods : prods[i].sku = Some(sku)}
    IN IF hits = {} THEN NULL ELSE Some(CHOOSE i \in hits : TRUE)

\* variant: the WHERE clause is missing, the first row is returned
get_product_by_id_AnyRow(prods, product_id) ==
    IF DOMAIN prods # {} THEN Some(prods[CHOOSE i \in DOMAIN prods : TRUE]) ELSE NULL

\* SELECT ... FROM products p WHERE p.id = ?
get_product_by_id(prods, product_id) ==
    IF product_id \in DOMAIN prods THEN Some(prods[product_id]) ELSE NULL

\* SELECT name FROM categories WHERE id = ?, as add_product uses it
CategoryNameOf(cats, category_id) ==
    IF IsNull(category_id) \/ Val(category_id) = 0 THEN <<>>
    ELSE IF Val(category_id) \in DOMAIN cats THEN cats[Val(category_id)].name
    ELSE <<>>

\* variant: the column carries no UNIQUE constraint
SkuUniqueOk_NoConstraint(prods, sku, except_id) == TRUE

\* the UNIQUE constraint on products.sku admits the row (NULLs never clash)
SkuUniqueOk(prods, sku, except_id) ==
    IsNull(sku) \/ \A i \in DOMAIN prods : i = except_id \/ prods[i].sku # sku

\* the row written by INSERT INTO products (...)
ProductRow(name, category_id, sku, description, unit_price, quantity, min_stock_level, supplier_id, t) ==
    [name |-> name, category_id |-> category_id, sku |-> sku,
     description |-> description, unit_price |-> unit_price, quantity |-> quantity,
     min_stock_level |-> min_stock_level, supplier_id |-> supplier_id,
     updated_at |-> t]

\* variant: the reference is not written
MovementRow_DropsReference(product_id, movement_type, quantity, reference_id, notes, user, t) ==
    [product_id |-> product_id, movement_type |-> movement_type,
     quantity |-> quantity, reference_id |-> NULL, notes |-> notes,
     user_id |-> IF IsNull(user) THEN NULL ELSE Some(Val(user).id),
     created_at |-> t]

\* variant: the user is not written
MovementRow_NoUser(product_id, movement_type, quantity, reference_id, notes, user, t) ==
    [product_id |-> product_id, movement_type |-> movement_type,
     quantity |-> quantity, reference_id |-> reference_id, notes |-> notes,
     user_id |-> NULL, created_at |-> t]

\* the row written by INSERT INTO stock_movements (...), its user_id from
\* get_current_user()
MovementRow(product_id, movement_type, quantity, reference_id, notes, user, t) ==
    [product_id |-> product_id, movement_type |-> movement_type,
     quantity |-> quantity, reference_id |-> reference_id, notes |-> notes,
     user_id |-> IF IsNull(user) THEN NULL ELSE Some(Val(user).id),
     created_at |-> t]

\* SELECT COUNT(*) FROM stock_movements WHERE product_id = ?
MovementCount(movs, product_id) ==
    Cardinality({k \in 1..Len(movs) : movs[k].product_id = product_id})

\* ------------------------------------------------------------------- inputs
\* product names a caller passes: "a", "b-"
Names == { <<97>>, <<98, 45>> }

\* explicit SKUs a caller passes: none, and "S"
SkuInputs == { NULL, Some(<<83>>) }

\* quantities a caller passes, a negative one among them
QtyInputs == {-1, 0, 2}

\* quantities a caller passes who never passes a negative one
NonNegQtyInputs == 0..MaxQty

CategoryInputs == { NULL }

PriceInputs == { 5 }

MinInputs == { 0 }

Reasons == { NULL, Some(""), Some("damage") }

\* product ids a caller may pass: those ever given out and one never given out
IdInputs == 1..(MaxProducts + 1)

\* the users who log in
SessionUsers == { u \in UserRows : u.role \in {"admin", "user"} }

Admins == { u \in UserRows : u.role = "admin" }

\* which write statement of a call the store fails on (0: none)
NoFailure == {0}

AnyFailure == {0, 1, 2}

Idle == [pc |-> "idle"]

\* what a call leaves behind: its result and the line its except clause (or
\* that of record_stock_movement) printed, "" when none
Returned(p, op, id, result, printed) ==
    [proc |-> p, op |-> op, id |-> id, result |-> result, printed |-> printed]

\* ---------------------------------------------------- record_stock_movement
\* variant: the new row overwrites the last row of the table
record_stock_movement_Overwrite(movs, user, t, product_id, movement_type, quantity, reference_id, notes, store_fails) ==
    LET row == MovementRow(product_id, movement_type, quantity, reference_id, notes, user, t)
    IN [movements |-> IF movs = <<>> THEN <<row>> ELSE [movs EXCEPT ![Len(movs)] = row],
        result |-> Some(Len(movs) + 1), printed |-> ""]

\* INSERT INTO stock_movements; an exception of the store is caught and None
\* is returned.  Gives the table, the returned movement id and the line printed.
record_stock_movement(movs, user, t, product_id, movement_type, quantity, reference_id, notes, store_fails) ==
    IF store_fails
    THEN [movements |-> movs, result |-> NULL, printed |-> "Record movement error"]
    ELSE [movements |-> Append(movs, MovementRow(product_id, movement_type, quantity,
                                                 reference_id, notes, user, t)),
          result |-> Some(Len(movs) + 1), printed |-> ""]

\* record_stock_movement called by itself: no permission is asked for, no
\* product is looked up
call_record_stock_movement(p, product_id, movement_type, quantity, reference_id, notes, failure) ==
    LET rec == record_stock_movement(movements, current_user[p], now, product_id,
                                     movement_type, quantity, reference_id, notes,
                                     failure = 1)
    IN
    /\ frames[p] = Idle
    /\ movements' = rec.movements
    /\ Len(movements') <= MaxMovements
    /\ last' = Returned(p, "record_stock_movement", product_id, rec.result, rec.printed)
    /\ UNCHANGED <<products, product_seq, categories, suppliers, supplier_seq, current_user, frames, now>>

\* ------------------------------------------------------------- add_product
\* "if not sku": generate one from the name and the category's name
ResolveSku(name, category_id, sku, cats, t) ==
    IF IsNull(sku) \/ Val(sku) = <<>>
    THEN generate_sku(name, CategoryNameOf(cats, category_id), t)
    ELSE Val(sku)

\* variant: the initial movement is recorded for a zero quantity too
NeedsInitialMovement_ZeroToo(quantity) == quantity >= 0

\* variant: the initial movement is recorded whatever the quantity
NeedsInitialMovement_Always(quantity) == TRUE

\* "if quantity > 0": the initial movement is recorded
NeedsInitialMovement(quantity) == quantity > 0

\* the movement add_product records for the new product
InitialMovement(movs, user, t, product_id, quantity, store_fails) ==
    record_stock_movement(movs, user, t, product_id, "in", quantity,
                          Some("Initial stock"), Some("Initial inventory"), store_fails)

add_product(p, name, category_id, description, unit_price, quantity, min_stock_level, supplier_id, sku, failure) ==
    LET sku1 == ResolveSku(name, category_id, sku, categories, now)
        product_id == product_seq + 1
        rec == InitialMovement(movements, current_user[p], now, product_id, quantity,
                               failure = 2)
    IN
    /\ frames[p] = Idle
    /\ IF ~has_permission(current_user[p], "add_stock")
       THEN /\ UNCHANGED <<products, product_seq, movements>>
            /\ last' = Returned(p, "add_product", 0, NULL, "")
       ELSE IF ~IsNull(get_product_by_sku(products, sku1))
       THEN /\ UNCHANGED <<products, product_seq, movements>>
            /\ last' = Returned(p, "add_product", 0, NULL, "")
       ELSE IF failure = 1 \/ ~SkuUniqueOk(products, Some(sku1), 0)
       THEN \* execute_insert raises: caught, "Add product error"
            /\ UNCHANGED <<products, product_seq, movements>>
            /\ last' = Returned(p, "add_product", 0, NULL, "Add product error")
       ELSE /\ products' = products @@
                   (product_id :> ProductRow(name, category_id, Some(sku1), description,
                                             unit_price, quantity, min_stock_level,
                                             supplier_id, now))
            /\ product_seq' = product_id
            /\ movements' = IF NeedsInitialMovement(quantity) THEN rec.movements
                            ELSE movements
            /\ last' = Returned(p, "add_product", 0, Some(product_id),
                                IF NeedsInitialMovement(quantity) THEN rec.printed ELSE "")
    /\ product_seq' <= MaxProducts
    /\ Len(movements') <= MaxMovements
    /\ UNCHANGED <<categories, suppliers, supplier_seq, current_user, frames, now>>

\* ------------------------------------------------------------ adjust_stock
\* variant: the early return on an unchanged quantity is missing
IsNoChange_Never(difference) == FALSE

\* "if difference == 0: return True"
IsNoChange(difference) == difference = 0

\* variant: the two movement types are swapped
MovementTypeOf_Swapped(difference) == IF difference > 0 THEN "out" ELSE "in"

\* "movement_type = 'in' if difference > 0 else 'out'"
MovementTypeOf(difference) == IF difference > 0 THEN "in" ELSE "out"

\* variant: the difference is recorded with its sign
MovementQuantityOf_Signed(difference) == difference

\* "abs(difference)"
MovementQuantityOf(difference) == Abs(difference)

\* "reason or 'Stock adjustment'"
NotesOf(reason) ==
    IF IsNull(reason) \/ Val(reason) = "" THEN "Stock adjustment" ELSE Val(reason)

\* the movement adjust_stock records after the quantity update
AdjustmentMovement(movs, user, t, product_id, difference, reason, store_fails) ==
    record_stock_movement(movs, user, t, product_id, MovementTypeOf(difference),
                          MovementQuantityOf(difference), Some("adjustment"),
                          Some(NotesOf(reason)), store_fails)

\* UPDATE products SET quantity = ?, updated_at = CURRENT_TIMESTAMP WHERE id = ?
UpdateQuantity(prods, product_id, new_quantity, t) ==
    IF product_id \in DOMAIN prods
    THEN [prods EXCEPT ![product_id].quantity = new_quantity,
                       ![product_id].updated_at = t]
    ELSE prods

adjust_stock(p, product_id, new_quantity, reason, failure) ==
    LET product == get_product_by_id(products, product_id)
        current_quantity == Val(product).quantity
        difference == new_quantity - current_quantity
        rec == AdjustmentMovement(movements, current_user[p], now, product_id,
                                  difference, reason, failure = 2)
    IN
    /\ frames[p] = Idle
    /\ IF ~has_permission(current_user[p], "edit_stock")
       THEN /\ UNCHANGED <<products, movements>>
            /\ last' = Returned(p, "adjust_stock", product_id, FALSE, "")
       ELSE IF IsNull(product)
       THEN /\ UNCHANGED <<products, movements>>
            /\ last' = Returned(p, "adjust_stock", product_id, FALSE, "")
       ELSE IF IsNoChange(difference)
       THEN /\ UNCHANGED <<products, movements>>
            /\ last' = Returned(p, "adjust_stock", product_id, TRUE, "")
       ELSE IF failure = 1
       THEN \* execute_update raises: caught, "Stock adjustment error"
            /\ UNCHANGED <<products, movements>>
            /\ last' = Returned(p, "adjust_stock", product_id, FALSE, "Stock adjustment error")
       ELSE \* the row exists, so rows_affected = 1
            /\ products' = UpdateQuantity(products, product_id, new_quantity, now)
            /\ movements' = rec.movements
            /\ last' = Returned(p, "adjust_stock", product_id, TRUE, rec.printed)
    /\ Len(movements') <= MaxMovements
    /\ UNCHANGED <<product_seq, categories, suppliers, supplier_seq, current_user, frames, now>>

\* ---------------------------------------------------------- delete_product
\* variant: one movement is not yet a history
HasMovementHistory_MoreThanOne(movs, product_id) == MovementCount(movs, product_id) > 1

\* variant: the movement count is never looked at
HasMovementHistory_Never(movs, product_id) == FALSE

\* "if movements and movements[0]['count'] > 0": deletion is refused
HasMovementHistory(movs, product_id) == MovementCount(movs, product_id) > 0

\* DELETE FROM products WHERE id = ?
DeleteRow(prods, product_id) ==
    [i \in DOMAIN prods \ {product_id} |-> prods[i]]

delete_product(p, product_id, failure) ==
    /\ frames[p] = Idle
    /\ IF ~has_permission(current_user[p], "delete_stock")
       THEN /\ UNCHANGED products
            /\ last' = Returned(p, "delete_product", product_id, FALSE, "")
       ELSE IF HasMovementHistory(movements, product_id)
       THEN /\ UNCHANGED products
            /\ last' = Returned(p, "delete_product", product_id, FALSE, "")
       ELSE IF failure = 1
       THEN \* execute_update raises: caught, "Delete product error"
            /\ UNCHANGED products
            /\ last' = Returned(p, "delete_product", product_id, FALSE, "Delete product error")
       ELSE /\ products' = DeleteRow(products, product_id)
            /\ last' = Returned(p, "delete_product", product_id,
                                product_id \in DOMAIN products, "")
    /\ UNCHANGED <<product_seq, movements, categories, suppliers, supplier_seq, current_user, frames, now>>

\* ---------------------------------------------------------- update_product
\* variant: quantity is among the fields update_product accepts
valid_fields_WithQuantity ==
    {"name", "category_id", "sku", "description", "unit_price", "min_stock_level",
     "supplier_id", "quantity"}

valid_fields ==
    {"name", "category_id", "sku", "description", "unit_price", "min_stock_level",
     "supplier_id"}

\* variant: every keyword makes it into the SET clause
UpdatesOf_All(kwargs) == DOMAIN kwargs

\* the fields of kwargs that make it into the SET clause
UpdatesOf(kwargs) == DOMAIN kwargs \cap valid_fields

\* UPDATE products SET <updates>, updated_at = CURRENT_TIMESTAMP: the new row
UpdatedRow(row, kwargs, t) ==
    [f \in DOMAIN row |-> IF f \in UpdatesOf(kwargs) THEN kwargs[f]
                          ELSE IF f = "updated_at" THEN t
                          ELSE row[f]]

update_product(p, product_id, kwargs, failure) ==
    /\ frames[p] = Idle
    /\ IF ~has_permission(current_user[p], "edit_stock")
       THEN /\ UNCHANGED products
            /\ last' = Returned(p, "update_product", product_id, FALSE, "")
       ELSE IF UpdatesOf(kwargs) = {}
       THEN /\ UNCHANGED products
            /\ last' = Returned(p, "update_product", product_id, FALSE, "")
       ELSE IF failure = 1
       THEN /\ UNCHANGED products
            /\ last' = Returned(p, "update_product", product_id, FALSE, "Update product error")
       ELSE IF product_id \notin DOMAIN products
       THEN \* rows_affected = 0
            /\ UNCHANGED products
            /\ last' = Returned(p, "update_product", product_id, FALSE, "")
       ELSE IF ~SkuUniqueOk(products, UpdatedRow(products[product_id], kwargs, now).sku, product_id)
       THEN \* the UNIQUE constraint raises: caught, "Update product error"
            /\ UNCHANGED products
            /\ last' = Returned(p, "update_product", product_id, FALSE, "Update product error")
       ELSE /\ products' = [products EXCEPT
                               ![product_id] = UpdatedRow(products[product_id], kwargs, now)]
            /\ last' = Returned(p, "update_product", product_id, TRUE, "")
    /\ UNCHANGED <<product_seq, movements, categories, suppliers, supplier_seq, current_user, frames, now>>

\* ------------------------------------------------------------ add_category
\* the UNIQUE constraint on categories.name admits the row
CategoryNameUniqueOk(cats, name) ==
    \A i \in DOMAIN cats : cats[i].name # name

\* INSERT INTO categories (name, description); of a category row the model
\* keeps the name
add_category(p, name, description, failure) ==
    /\ frames[p] = Idle
    /\ IF ~has_permission(current_user[p], "edit_stock")
       THEN /\ UNCHANGED categories
            /\ last' = Returned(p, "add_category", 0, NULL, "")
       ELSE IF failure = 1 \/ ~CategoryNameUniqueOk(categories, name)
       THEN \* execute_insert raises: caught, "Add category error"
            /\ UNCHANGED categories
            /\ last' = Returned(p, "add_category", 0, NULL, "Add category error")
       ELSE /\ categories' = Append(categories, [name |-> name])
            /\ last' = Returned(p, "add_category", 0, Some(Len(categories) + 1), "")
    /\ UNCHANGED <<products, product_seq, movements, suppliers, supplier_seq, current_user, frames, now>>

\* ------------------------------------------- add_supplier, delete_supplier
\* str.isspace() on one ASCII code
IsSpace(c) == c \in {9, 10, 11, 12, 13, 32}

\* str.lstrip()
RECURSIVE LStrip(_)
LStrip(s) ==
    IF s = <<>> THEN <<>>
    ELSE IF IsSpace(Head(s)) THEN LStrip(Tail(s))
    ELSE s

\* str.rstrip()
RECURSIVE RStrip(_)
RStrip(s) ==
    IF s = <<>> THEN <<>>
    ELSE IF IsSpace(s[Len(s)]) THEN RStrip(SubSeq(s, 1, Len(s) - 1))
    ELSE s

\* str.strip()
Strip(s) == RStrip(LStrip(s))

\* the row written by INSERT INTO suppliers (name, email, phone, address)
SupplierRow(name, email, phone, address) ==
    [name |-> name, email |-> email, phone |-> phone, address |-> address]

\* add_supplier(name), with email, phone and address left at None: their
\* validations and the lookup of the email are skipped
add_supplier(p, name, failure) ==
    LET supplier_id == supplier_seq + 1
    IN
    /\ frames[p] = Idle
    /\ IF ~has_permission(current_user[p], "add_suppliers")
       THEN /\ UNCHANGED <<suppliers, supplier_seq>>
            /\ last' = Returned(p, "add_supplier", 0, NULL, "")
       ELSE IF name = <<>> \/ Strip(name) = <<>>
       THEN /\ UNCHANGED <<suppliers, supplier_seq>>
            /\ last' = Returned(p, "add_supplier", 0, NULL, "")
       ELSE IF failure = 1
       THEN \* execute_insert raises: caught, "Add supplier error"
            /\ UNCHANGED <<suppliers, supplier_seq>>
            /\ last' = Returned(p, "add_supplier", 0, NULL, "Add supplier error")
       ELSE /\ suppliers' = suppliers @@
                   (supplier_id :> SupplierRow(Strip(name), NULL, NULL, NULL))
            /\ supplier_seq' = supplier_id
            /\ last' = Returned(p, "add_supplier", 0, Some(supplier_id), "")
    /\ UNCHANGED <<products, product_seq, movements, categories, current_user, frames, now>>

\* SELECT COUNT(*) FROM products WHERE supplier_id = ?
SupplierProductCount(prods, supplier_id) ==
    Cardinality({i \in DOMAIN prods : prods[i].supplier_id = Some(supplier_id)})

\* variant: the products of the supplier are never counted
HasAssociatedProducts_Never(prods, supplier_id) == FALSE

\* "if products and products[0]['count'] > 0": deletion is refused
HasAssociatedProducts(prods, supplier_id) ==
    SupplierProductCount(prods, supplier_id) > 0

delete_supplier(p, supplier_id, failure) ==
    /\ frames[p] = Idle
    /\ IF ~has_permission(current_user[p], "delete_suppliers")
       THEN /\ UNCHANGED suppliers
            /\ last' = Returned(p, "delete_supplier", supplier_id, FALSE, "")
       ELSE IF HasAssociatedProducts(products, supplier_id)
       THEN /\ UNCHANGED suppliers
            /\ last' = Returned(p, "delete_supplier", supplier_id, FALSE, "")
       ELSE IF failure = 1
       THEN \* execute_update raises: caught, "Delete supplier error"
            /\ UNCHANGED suppliers
            /\ last' = Returned(p, "delete_supplier", supplier_id, FALSE, "Delete supplier error")
       ELSE \* DELETE FROM suppliers WHERE id = ?
            /\ suppliers' = [i \in DOMAIN suppliers \ {supplier_id} |-> suppliers[i]]
            /\ last' = Returned(p, "delete_supplier", supplier_id,
                                supplier_id \in DOMAIN suppliers, "")
    /\ UNCHANGED <<products, product_seq, movements, categories, supplier_seq, current_user, frames, now>>

\* ------------------------------------- add_product, one store statement a step
\* Every execute_query / execute_insert opens its own connection and commits,
\* so another application's statements may fall between any two of them.
AddFrame(pc, name, category_id, description, unit_price, quantity, min_stock_level, supplier_id, sku, product_id) ==
    [pc |-> pc, name |-> name, category_id |-> category_id, description |-> description,
     unit_price |-> unit_price, quantity |-> quantity,
     min_stock_level |-> min_stock_level, supplier_id |-> supplier_id,
     sku |-> sku, product_id |-> product_id]

Goto(p, pc) == frames' = [frames EXCEPT ![p].pc = pc]

Return(p, op, id, result, printed) ==
    /\ frames' = [frames EXCEPT ![p] = Idle]
    /\ last' = Returned(p, op, id, result, printed)

\* lines 81-93: the permission check, the category lookup, generate_sku
add_product_begin(p, name, category_id, description, unit_price, quantity, min_stock_level, supplier_id, sku) ==
    /\ frames[p] = Idle
    /\ IF ~has_permission(current_user[p], "add_stock")
       THEN Return(p, "add_product", 0, NULL, "")
       ELSE /\ frames' = [frames EXCEPT ![p] =
                   AddFrame("check_sku", name, category_id, description, unit_price,
                            quantity, min_stock_level, supplier_id,
                            ResolveSku(name, category_id, sku, categories, now), 0)]
            /\ UNCHANGED last
    /\ UNCHANGED <<products, product_seq, movements, categories, suppliers, supplier_seq, current_user, now>>

\* lines 96-98: get_product_by_sku
add_product_check_sku(p) ==
    /\ frames[p].pc = "check_sku"
    /\ IF ~IsNull(get_product_by_sku(products, frames[p].sku))
       THEN Return(p, "add_product", 0, NULL, "")
       ELSE Goto(p, "insert_product") /\ UNCHANGED last
    /\ UNCHANGED <<products, product_seq, movements, categories, suppliers, supplier_seq, current_user, now>>

\* lines 100-106: INSERT INTO products
add_product_insert(p) ==
    LET f == frames[p]
        product_id == product_seq + 1
    IN
    /\ f.pc = "insert_product"
    /\ IF ~SkuUniqueOk(products, Some(f.sku), 0)
       THEN \* sqlite3.IntegrityError: caught, "Add product error"
            /\ Return(p, "add_product", 0, NULL, "Add product error")
            /\ UNCHANGED <<products, product_seq>>
       ELSE /\ products' = products @@
                   (product_id :> ProductRow(f.name, f.category_id, Some(f.sku),
                                             f.description, f.unit_price, f.quantity,
                                             f.min_stock_level, f.supplier_id, now))
            /\ product_seq' = product_id
            /\ IF NeedsInitialMovement(f.quantity)
               THEN /\ frames' = [frames EXCEPT ![p].pc = "insert_movement",
                                                ![p].product_id = product_id]
                    /\ UNCHANGED last
               ELSE Return(p, "add_product", 0, Some(product_id), "")
    /\ product_seq' <= MaxProducts
    /\ UNCHANGED <<movements, categories, suppliers, supplier_seq, current_user, now>>

\* lines 109-114: record_stock_movement, return product_id
add_product_insert_movement(p) ==
    LET f == frames[p]
        rec == InitialMovement(movements, current_user[p], now, f.product_id,
                               f.quantity, FALSE)
    IN
    /\ f.pc = "insert_movement"
    /\ movements' = rec.movements
    /\ Len(movements') <= MaxMovements
    /\ Return(p, "add_product", 0, Some(f.product_id), rec.printed)
    /\ UNCHANGED <<products, product_seq, categories, suppliers, supplier_seq, current_user, now>>

\* ------------------------------------ adjust_stock, one store statement a step
\* variant: the difference is taken the other way round
DifferenceOf_Reversed(new_quantity, current_quantity) == current_quantity - new_quantity

\* "difference = new_quantity - current_quantity"
DifferenceOf(new_quantity, current_quantity) == new_quantity - current_quantity

AdjustFrame(pc, product_id, new_quantity, reason, current_quantity, difference) ==
    [pc |-> pc, product_id |-> product_id, new_quantity |-> new_quantity,
     reason |-> reason, current_quantity |-> current_quantity, difference |-> difference]

\* lines 181-194: the permission check, get_product_by_id, the difference
adjust_stock_begin(p, product_id, new_quantity, reason) ==
    LET product == get_product_by_id(products, product_id)
        current_quantity == Val(product).quantity
        difference == DifferenceOf(new_quantity, current_quantity)
    IN
    /\ frames[p] = Idle
    /\ IF ~has_permission(current_user[p], "edit_stock")
       THEN Return(p, "adjust_stock", product_id, FALSE, "")
       ELSE IF IsNull(product)
       THEN Return(p, "adjust_stock", product_id, FALSE, "")
       ELSE IF IsNoChange(difference)
       THEN Return(p, "adjust_stock", product_id, TRUE, "")
       ELSE /\ frames' = [frames EXCEPT ![p] =
                   AdjustFrame("update_quantity", product_id, new_quantity, reason,
                               current_quantity, difference)]
            /\ UNCHANGED last
    /\ UNCHANGED <<products, product_seq, movements, categories, suppliers, supplier_seq, current_user, now>>

\* lines 197-202: UPDATE products SET quantity = ?; no row updated: False
adjust_stock_update(p) ==
    LET f == frames[p]
    IN
    /\ f.pc = "update_quantity"
    /\ IF f.product_id \in DOMAIN products
       THEN /\ products' = UpdateQuantity(products, f.product_id, f.new_quantity, now)
            /\ Goto(p, "record_adjustment")
            /\ UNCHANGED last
       ELSE /\ UNCHANGED products
            /\ Return(p, "adjust_stock", f.product_id, FALSE, "")
    /\ UNCHANGED <<product_seq, movements, categories, suppliers, supplier_seq, current_user, now>>

\* lines 204-209: record_stock_movement, return True
adjust_stock_record(p) ==
    LET f == frames[p]
        rec == AdjustmentMovement(movements, current_user[p], now, f.product_id,
                                  f.difference, f.reason, FALSE)
    IN
    /\ f.pc = "record_adjustment"
    /\ movements' = rec.movements
    /\ Len(movements') <= MaxMovements
    /\ Return(p, "adjust_stock", f.product_id, TRUE, rec.printed)
    /\ UNCHANGED <<products, product_seq, categories, suppliers, supplier_seq, current_user, now>>

\* ---------------------------------- delete_product, one store statement a step
DeleteFrame(pc, product_id) == [pc |-> pc, product_id |-> product_id]

\* lines 156-167: the permission check, SELECT COUNT(*) FROM stock_movements
delete_product_count(p, product_id) ==
    /\ frames[p] = Idle
    /\ IF ~has_permission(current_user[p], "delete_stock")
       THEN Return(p, "delete_product", product_id, FALSE, "")
       ELSE IF HasMovementHistory(movements, product_id)
       THEN Return(p, "delete_product", product_id, FALSE, "")
       ELSE /\ frames' = [frames EXCEPT ![p] = DeleteFrame("delete_row", product_id)]
            /\ UNCHANGED last
    /\ UNCHANGED <<products, product_seq, movements, categories, suppliers, supplier_seq, current_user, now>>

\* lines 169-174: DELETE FROM products WHERE id = ?, return rows_affected > 0
delete_product_delete(p) ==
    LET f == frames[p]
    IN
    /\ f.pc = "delete_row"
    /\ products' = DeleteRow(products, f.product_id)
    /\ Return(p, "delete_product", f.product_id, f.product_id \in DOMAIN products, "")
    /\ UNCHANGED <<product_seq, movements, categories, suppliers, supplier_seq, current_user, now>>

\* -------------------------------------------------- get_low_stock_products
\* variant: a product exactly at its minimum level is not reported
IsLowStock_Below(row) == row.quantity < row.min_stock_level

\* WHERE p.quantity <= p.min_stock_level
IsLowStock(row) == row.quantity <= row.min_stock_level

\* comparison of two texts under the BINARY collation: a sorts before b
RECURSIVE TextLess(_, _)
TextLess(a, b) ==
    IF b = <<>> THEN FALSE
    ELSE IF a = <<>> THEN TRUE
    ELSE IF Head(a) # Head(b) THEN Head(a) < Head(b)
    ELSE TextLess(Tail(a), Tail(b))

\* ORDER BY (p.quantity - p.min_stock_level) ASC, p.name: r1 sorts before r2
LowStockBefore(r1, r2) ==
    LET d1 == r1.quantity - r1.min_stock_level
        d2 == r2.quantity - r2.min_stock_level
    IN d1 < d2 \/ (d1 = d2 /\ TextLess(r1.name, r2.name))

\* the sorter: row i put into an ordered list, behind the rows it does not
\* sort before (rows that compare equal stay in rowid order)
RECURSIVE InsertOrdered(_, _, _)
InsertOrdered(prods, ordered, i) ==
    IF ordered = <<>> THEN <<i>>
    ELSE IF LowStockBefore(prods[i], prods[Head(ordered)]) THEN <<i>> \o ordered
    ELSE <<Head(ordered)>> \o InsertOrdered(prods, Tail(ordered), i)

\* the rows of ids, scanned by ascending rowid, in ORDER BY order
RECURSIVE OrderRows(_, _)
OrderRows(prods, ids) ==
    IF ids = {} THEN <<>>
    ELSE LET i == CHOOSE x \in ids : \A y \in ids : y <= x
         IN InsertOrdered(prods, OrderRows(prods, ids \ {i}), i)

\* the ids of the rows the query returns, in the order it returns them
LowStockRows(prods) ==
    OrderRows(prods, {i \in DOMAIN prods : IsLowStock(prods[i])})

get_low_stock_products(p) ==
    /\ frames[p] = Idle
    /\ last' = Returned(p, "get_low_stock_products", 0, LowStockRows(products), "")
    /\ UNCHANGED <<products, product_seq, movements, categories, suppliers, supplier_seq, current_user, frames, now>>

\* ----------------------------------------------------- get_stock_statistics
\* variant: the value of a row is its price alone
StockValueOf_PriceOnly(row) == row.unit_price

\* quantity * unit_price of one row
StockValueOf(row) == row.quantity * row.unit_price

\* SELECT SUM(quantity * unit_price) FROM products, NULL on an empty table
RECURSIVE SumStockValue(_, _)
SumStockValue(prods, ids) ==
    IF ids = {} THEN NULL
    ELSE LET i == CHOOSE x \in ids : \A y \in ids : x <= y
             rest == SumStockValue(prods, ids \ {i})
         IN Some(StockValueOf(prods[i]) + (IF IsNull(rest) THEN 0 ELSE Val(rest)))

\* "stock_value[0]['total_value'] or 0.0"
OrZero(o) == IF IsNull(o) THEN 0 ELSE Val(o)

\* the four figures of the stats dictionary (its list of product counts by
\* category is left out)
StockStatistics(prods) ==
    [total_products |-> Cardinality(DOMAIN prods),
     total_stock_value |-> OrZero(SumStockValue(prods, DOMAIN prods)),
     low_stock_count |-> Cardinality({i \in DOMAIN prods : IsLowStock(prods[i])}),
     out_of_stock_count |-> Cardinality({i \in DOMAIN prods : prods[i].quantity = 0})]

get_stock_statistics(p) ==
    /\ frames[p] = Idle
    /\ last' = Returned(p, "get_stock_statistics", 0, StockStatistics(products), "")
    /\ UNCHANGED <<products, product_seq, movements, categories, suppliers, supplier_seq, current_user, frames, now>>

\* ------------------------------------------------------ get_stock_movements
\* FROM stock_movements sm JOIN products p ON sm.product_id = p.id WHERE 1=1
\* [AND sm.product_id = ?]: the ids of the rows selected.  "if product_id:"
\* adds the filter for an id that is neither None nor 0.
SelectedMovements(movs, prods, product_id) ==
    {k \in 1..Len(movs) :
        /\ movs[k].product_id \in DOMAIN prods
        /\ (~IsNull(product_id) /\ Val(product_id) # 0) => movs[k].product_id = Val(product_id)}

\* ORDER BY sm.created_at DESC: the orders the rows may come in.  created_at
\* is CURRENT_TIMESTAMP, a time in whole seconds, and the order of rows with
\* the same created_at is left to the query engine.
CreatedAtDescOrders(movs, ids) ==
    {o \in [1..Cardinality(ids) -> ids] :
        /\ \A j, k \in DOMAIN o : j # k => o[j] # o[k]
        /\ \A j, k \in DOMAIN o : j < k => movs[o[j]].created_at >= movs[o[k]].created_at}

\* LIMIT ?: the first limit rows, all of them for a negative limit
Limit(rows, limit) ==
    IF limit < 0 THEN rows ELSE Take(rows, limit)

get_stock_movements(p, product_id, limit) ==
    /\ frames[p] = Idle
    /\ \E rows \in CreatedAtDescOrders(movements, SelectedMovements(movements, products, product_id)) :
          last' = Returned(p, "get_stock_movements", 0, Limit(rows, limit), "")
    /\ UNCHANGED <<products, product_seq, movements, categories, suppliers, supplier_seq, current_user, frames, now>>

\* ------------------------------------------------------------------ the clock
\* a second passes
Tick(max) ==
    /\ now < max
    /\ now' = now + 1
    /\ UNCHANGED <<products, product_seq, movements, categories, suppliers, supplier_seq, current_user, frames, last>>

\* ------------------------------------------------- authenticate and logout
authenticate(p, user) ==
    /\ frames[p] = Idle
    /\ current_user' = [current_user EXCEPT ![p] = Some(user)]
    /\ last' = Returned(p, "authenticate", 0, Some(user.id), "")
    /\ UNCHANGED <<products, product_seq, movements, categories, suppliers, supplier_seq, frames, now>>

logout(p) ==
    /\ frames[p] = Idle
    /\ current_user' = [current_user EXCEPT ![p] = NULL]
    /\ last' = Returned(p, "logout", 0, NULL, "")
    /\ UNCHANGED <<products, product_seq, movements, categories, suppliers, supplier_seq, frames, now>>

\* ------------------------------------------------------------ specification
Init ==
    /\ products = <<>>
    /\ product_seq = 0
    /\ movements = <<>>
    /\ categories = DefaultCategories
    /\ suppliers = <<>>
    /\ supplier_seq = 0
    /\ current_user = [p \in Procs |-> NULL]
    /\ frames = [p \in Procs |-> Idle]
    /\ now = 0
    /\ last = Returned(0, "init", 0, NULL, "")

AddProduct(procs, names, qtys, failures) ==
    \E p \in procs, name \in names, category_id \in CategoryInputs,
       unit_price \in PriceInputs, quantity \in qtys, min_stock_level \in MinInputs,
       sku \in SkuInputs, failure \in failures :
        add_product(p, name, category_id, NULL, unit_price, quantity, min_stock_level,
                    NULL, sku, failure)

AdjustStock(procs, qtys, reasons, failures) ==
    \E p \in procs, product_id \in IdInputs, new_quantity \in qtys,
       reason \in reasons, failure \in failures :
        adjust_stock(p, product_id, new_quantity, reason, failure)

DeleteProduct(procs, failures) ==
    \E p \in procs, product_id \in IdInputs, failure \in failures :
        delete_product(p, product_id, failure)

Authenticate(procs, users) ==
    \E p \in procs, user \in users : authenticate(p, user)

Logout(procs) ==
    \E p \in procs : logout(p)

\* one application, the administrator logging in, calls one after the other,
\* the store never failing
Next ==
    \/ Authenticate({1}, Admins)
    \/ AddProduct({1}, {<<97>>}, QtyInputs, NoFailure)
    \/ AdjustStock({1}, QtyInputs, Reasons, NoFailure)
    \/ DeleteProduct({1}, NoFailure)

Spec == Init /\ [][Next]_vars

\* add_product with a non-negative initial quantity and adjust_stock only,
\* any user logging in and out
NextLedger ==
    \/ Authenticate({1}, SessionUsers)
    \/ Logout({1})
    \/ AddProduct({1}, {<<97>>}, NonNegQtyInputs, NoFailure)
    \/ AdjustStock({1}, {-1} \cup NonNegQtyInputs, {NULL}, NoFailure)

SpecLedger == Init /\ [][NextLedger]_vars

\* the administrator adding and adjusting products, the store failing on any
\* write of a call
NextFail ==
    \/ Authenticate({1}, Admins)
    \/ AddProduct({1}, {<<97>>}, QtyInputs \ {-1}, AnyFailure)
    \/ AdjustStock({1}, QtyInputs \ {-1}, {NULL}, AnyFailure)

SpecFail == Init /\ [][NextFail]_vars

\* keyword arguments a caller of update_product passes
SkuKwargs ==
    { [sku |-> Some(<<83>>)],
      [sku |-> Some(generate_sku(<<97>>, <<>>, 0))],
      [quantity |-> 1] }

UpdateProduct(procs, kwargss, failures) ==
    \E p \in procs, product_id \in IdInputs, kwargs \in kwargss, failure \in failures :
        update_product(p, product_id, kwargs, failure)

AddProductBegin(procs, names, qtys) ==
    \E p \in procs, name \in names, category_id \in CategoryInputs,
       unit_price \in PriceInputs, quantity \in qtys, min_stock_level \in MinInputs,
       sku \in SkuInputs :
        add_product_begin(p, name, category_id, NULL, unit_price, quantity,
                          min_stock_level, NULL, sku)

AddProductCheckSku == \E p \in Procs : add_product_check_sku(p)

AddProductInsert == \E p \in Procs : add_product_insert(p)

AddProductInsertMovement == \E p \in Procs : add_product_insert_movement(p)

\* two applications on one database file, the statements of their add_product
\* calls interleaved, update_product changing SKUs in between
NextConc ==
    \/ Authenticate(Procs, Admins)
    \/ AddProductBegin(Procs, {<<97>>}, {0, 1})
    \/ AddProductCheckSku
    \/ AddProductInsert
    \/ AddProductInsertMovement
    \/ UpdateProduct(Procs, SkuKwargs, NoFailure)

SpecConc == Init /\ [][NextConc]_vars

\* --------------------------------------------- the low-stock query by itself
MaxLowRows == 4

\* rows of a product table the query is put to: quantities 0, 5, 6, 10,
\* minimum levels 0, 5, names "a", "ab"
LowRowInputs ==
    { [quantity |-> q, min_stock_level |-> m, name |-> n] :
        q \in {0, 5, 6, 10}, m \in {0, 5}, n \in { <<97>>, <<97, 98>> } }

\* the table made by add_product calls with explicit SKUs "S1", "S2", ...
LowTable(rows) ==
    [i \in 1..Len(rows) |->
        ProductRow(rows[i].name, NULL, Some(<<83, 48 + i>>), NULL, 5, rows[i].quantity,
                   rows[i].min_stock_level, NULL, 0)]

InitLow ==
    /\ \E n \in 0..MaxLowRows : \E rows \in [1..n -> LowRowInputs] :
          /\ products = LowTable(rows)
          /\ product_seq = n
    /\ movements = <<>>
    /\ categories = DefaultCategories
    /\ suppliers = <<>>
    /\ supplier_seq = 0
    /\ current_user = [p \in Procs |-> NULL]
    /\ frames = [p \in Procs |-> Idle]
    /\ now = 0
    /\ last = Returned(0, "init", 0, NULL, "")

GetLowStockProducts == get_low_stock_products(1)

NextLow == GetLowStockProducts

SpecLow == InitLow /\ [][NextLow]_vars

\* ------------------------------------------------ update_product by itself
\* keyword arguments of update_product: a quantity alone, a name with a
\* quantity, a minimum level with a price, an unknown keyword, a SKU
UpdateKwargs ==
    { [quantity |-> 9],
      [name |-> <<99>>, quantity |-> 9],
      [min_stock_level |-> 1, unit_price |-> 7],
      [color |-> 1],
      [sku |-> Some(<<83>>)] }

\* the administrator adding products and updating them
NextUpdate ==
    \/ Authenticate({1}, Admins)
    \/ AddProduct({1}, Names, QtyInputs \ {-1}, NoFailure)
    \/ UpdateProduct({1}, UpdateKwargs, NoFailure)

SpecUpdate == Init /\ [][NextUpdate]_vars

\* ------------------------------------------------- callers of every role
\* category names a caller passes: "X", and "Other", which exists
CategoryNames == { <<88>>, <<79, 116, 104, 101, 114>> }

AddCategory(procs, names, failures) ==
    \E p \in procs, name \in names, failure \in failures :
        add_category(p, name, NULL, failure)

\* keyword arguments that rename a product or give it the SKU "S"
PermKwargs == { [name |-> <<99>>], [sku |-> Some(<<83>>)] }

\* an administrator and a plain user logging in and out, each calling every
\* mutating operation
NextPerm ==
    \/ Authenticate({1}, SessionUsers)
    \/ Logout({1})
    \/ AddProduct({1}, {<<97>>}, QtyInputs \ {-1}, NoFailure)
    \/ UpdateProduct({1}, PermKwargs, NoFailure)
    \/ AdjustStock({1}, QtyInputs \ {-1}, {NULL}, NoFailure)
    \/ DeleteProduct({1}, NoFailure)
    \/ AddCategory({1}, CategoryNames, NoFailure)

SpecPerm == Init /\ [][NextPerm]_vars

\* ------------------------------------------- every writer, the store failing
RecordStockMovement(procs, ids, types, qtys, failures) ==
    \E p \in procs, product_id \in ids, movement_type \in types, quantity \in qtys,
       failure \in failures :
        call_record_stock_movement(p, product_id, movement_type, quantity, NULL, NULL,
                                   failure)

\* keyword arguments that rename a product
NameKwargs == { [name |-> <<99>>] }

\* the administrator calling add_product, update_product, adjust_stock and
\* delete_product one after the other, the store failing on the movement
\* insert of add_product
NextSeq ==
    \/ Authenticate({1}, Admins)
    \/ AddProduct({1}, {<<97>>}, QtyInputs \ {-1}, {0, 2})
    \/ UpdateProduct({1}, NameKwargs, NoFailure)
    \/ AdjustStock({1}, QtyInputs \ {-1}, {NULL}, NoFailure)
    \/ DeleteProduct({1}, NoFailure)

SpecSeq == Init /\ [][NextSeq]_vars

\* the same calls and record_stock_movement called by itself on product 1
NextAll ==
    \/ NextSeq
    \/ RecordStockMovement({1}, {1}, {"out"}, {1}, NoFailure)

SpecAll == Init /\ [][NextAll]_vars

\* ------------------------------------------------ suppliers and their products
MaxSuppliers == 2

\* supplier names a caller passes: "s", " t", and a blank one
SupplierNames == { <<115>>, <<32, 116>>, <<32>> }

\* supplier ids a caller may pass: those ever given out and one never given out
SupplierIdInputs == 1..(MaxSuppliers + 1)

\* the supplier a product is given: none, supplier 1, supplier 2
SupplierInputs == { NULL, Some(1), Some(2) }

\* keyword arguments that hand a product over to supplier 1
SupplierKwargs == { [supplier_id |-> Some(1)] }

AddSupplier(procs, names, failures) ==
    \E p \in procs, name \in names, failure \in failures :
        /\ add_supplier(p, name, failure)
        /\ supplier_seq' <= MaxSuppliers

DeleteSupplier(procs, failures) ==
    \E p \in procs, supplier_id \in SupplierIdInputs, failure \in failures :
        delete_supplier(p, supplier_id, failure)

\* add_product of a product without stock, from a supplier
AddProductOf(procs, names, supplier_ids) ==
    \E p \in procs, name \in names, supplier_id \in supplier_ids :
        add_product(p, name, NULL, NULL, 5, 0, 0, supplier_id, NULL, 0)

\* the administrator adding and deleting suppliers and products, and handing
\* products over to a supplier
NextSupplier ==
    \/ Authenticate({1}, Admins)
    \/ AddSupplier({1}, SupplierNames, NoFailure)
    \/ DeleteSupplier({1}, NoFailure)
    \/ AddProductOf({1}, Names, SupplierInputs)
    \/ UpdateProduct({1}, SupplierKwargs, NoFailure)
    \/ DeleteProduct({1}, NoFailure)

SpecSupplier == Init /\ [][NextSupplier]_vars

\* ------------------------------------------------- the movement history read
\* seconds the clock runs for
MaxClock == 1

\* the product a caller asks the history of: none given, product 1
HistoryOfInputs == { NULL, Some(1) }

\* the limits a caller passes
LimitInputs == { 1, 2 }

GetStockMovements(procs, product_ids, limits) ==
    \E p \in procs, product_id \in product_ids, limit \in limits :
        get_stock_movements(p, product_id, limit)

\* the administrator adding and adjusting products while seconds pass, and
\* reading the movement history
NextMoves ==
    \/ Authenticate({1}, Admins)
    \/ AddProduct({1}, Names, {2}, NoFailure)
    \/ AdjustStock({1}, {0, 2}, {NULL}, NoFailure)
    \/ Tick(MaxClock)
    \/ GetStockMovements({1}, HistoryOfInputs, LimitInputs)

SpecMoves == Init /\ [][NextMoves]_vars

\* ------------------------------------------------ stock status and statistics
\* unit prices a caller passes
StatPriceInputs == { 5, 10 }

\* quantities a caller passes to add_product
StatQtyInputs == { 0, 2, 3 }

\* minimum stock levels a caller passes
StatMinInputs == { -1, 0, 2 }

\* keyword arguments that set the minimum stock level
MinKwargs == { [min_stock_level |-> m] : m \in StatMinInputs }

AddProductPriced(procs, names, prices, qtys, mins) ==
    \E p \in procs, name \in names, unit_price \in prices, quantity \in qtys,
       min_stock_level \in mins, sku \in SkuInputs :
        add_product(p, name, NULL, NULL, unit_price, quantity, min_stock_level, NULL,
                    sku, 0)

GetStockStatistics(procs) == \E p \in procs : get_stock_statistics(p)

GetLowStock(procs) == \E p \in procs : get_low_stock_products(p)

\* the administrator adding, updating and adjusting products of several
\* prices and minimum levels, and reading the statistics and the low-stock list
NextStatus ==
    \/ Authenticate({1}, Admins)
    \/ AddProductPriced({1}, {<<97>>}, StatPriceInputs, StatQtyInputs, StatMinInputs)
    \/ UpdateProduct({1}, MinKwargs, NoFailure)
    \/ AdjustStock({1}, {0}, {NULL}, NoFailure)
    \/ GetStockStatistics({1})
    \/ GetLowStock({1})

SpecStatus == Init /\ [][NextStatus]_vars

\* --------------------------------------------- record_stock_movement by itself
\* product ids a caller of record_stock_movement passes: product 1 and an id
\* never given out
RecordIdInputs == { 1, MaxProducts + 1 }

\* reference and notes a caller passes: both left out, both given
RecordTextInputs ==
    { [reference_id |-> NULL, notes |-> NULL],
      [reference_id |-> Some("PO-1"), notes |-> Some("received")] }

RecordMovement(procs, ids, types, qtys, texts, failures) ==
    \E p \in procs, product_id \in ids, movement_type \in types, quantity \in qtys,
       text \in texts, failure \in failures :
        call_record_stock_movement(p, product_id, movement_type, quantity,
                                   text.reference_id, text.notes, failure)

\* products without stock being added and record_stock_movement being called
\* directly, logged in or not, the store failing or not
NextRecord ==
    \/ Authenticate({1}, Admins)
    \/ AddProduct({1}, {<<97>>}, {0}, NoFailure)
    \/ RecordMovement({1}, RecordIdInputs, {"in", "out"}, {1}, RecordTextInputs, {0, 1})

SpecRecord == Init /\ [][NextRecord]_vars

\* ------------------------------------- two applications adjusting and deleting
\* quantities the two applications adjust to
RaceQtyInputs == { 0, 1, 2 }

AdjustStockBegin(procs, qtys, reasons) ==
    \E p \in procs, product_id \in IdInputs, new_quantity \in qtys, reason \in reasons :
        adjust_stock_begin(p, product_id, new_quantity, reason)

AdjustStockUpdate == \E p \in Procs : adjust_stock_update(p)

AdjustStockRecord == \E p \in Procs : adjust_stock_record(p)

DeleteProductCount(procs) ==
    \E p \in procs, product_id \in IdInputs : delete_product_count(p, product_id)

DeleteProductDelete == \E p \in Procs : delete_product_delete(p)

\* two applications, an administrator logged in on each, adjusting products
\* that were added without stock, the statements of their adjust_stock calls
\* interleaved
NextRace ==
    \/ Authenticate(Procs, Admins)
    \/ AddProduct({1}, {<<97>>}, {0}, NoFailure)
    \/ AdjustStockBegin(Procs, RaceQtyInputs, {NULL})
    \/ AdjustStockUpdate
    \/ AdjustStockRecord

SpecRace == Init /\ [][NextRace]_vars

\* the same with delete_product calls interleaved as well
NextDeleteRace ==
    \/ Authenticate(Procs, Admins)
    \/ AddProduct({1}, {<<97>>}, {0}, NoFailure)
    \/ AdjustStockBegin(Procs, {2}, {NULL})
    \/ AdjustStockUpdate
    \/ AdjustStockRecord
    \/ DeleteProductCount(Procs)
    \/ DeleteProductDelete

SpecDeleteRace == Init /\ [][NextDeleteRace]_vars

\* ------------------------------------------------------------- generate_sku
\* a call of utils.generate_sku by application p; the observation keeps the
\* two arguments with the string returned
call_generate_sku(p, product_name, category) ==
    /\ frames[p] = Idle
    /\ last' = Returned(p, "generate_sku", <<product_name, category>>,
                        Some(generate_sku(product_name, category, now)), "")
    /\ UNCHANGED <<products, product_seq, movements, categories, suppliers, supplier_seq, current_user, frames, now>>

MaxNameLen == 5

\* the characters names are made of: "a" and "-"
SkuChars == {97, 45}

\* product names of up to MaxNameLen characters, the empty one included, and
\* the names "a-1-a", "1 B2c9", "A-B-C-D"
SkuNameInputs ==
    UNION { [1..n -> SkuChars] : n \in 0..MaxNameLen }
      \cup { <<97, 45, 49, 45, 97>>, <<49, 32, 66, 50, 99, 57>>,
             <<65, 45, 66, 45, 67, 45, 68>> }

\* category names: none, "el", "Food", "a b"
SkuCategoryInputs == { <<>>, <<101, 108>>, <<70, 111, 111, 100>>, <<97, 32, 98>> }

\* readings of the clock: January 1st 00:00:00 and January 9th 17:32:01
SkuClockInputs == {0, 754321}

InitSku ==
    /\ products = <<>>
    /\ product_seq = 0
    /\ movements = <<>>
    /\ categories = DefaultCategories
    /\ suppliers = <<>>
    /\ supplier_seq = 0
    /\ current_user = [p \in Procs |-> NULL]
    /\ frames = [p \in Procs |-> Idle]
    /\ now \in SkuClockInputs
    /\ last = Returned(0, "init", 0, NULL, "")

GenerateSku ==
    \E product_name \in SkuNameInputs, category \in SkuCategoryInputs :
        call_generate_sku(1, product_name, category)

NextSku == GenerateSku

SpecSku == InitSku /\ [][NextSku]_vars

\* ------------------------------------------------------------- add_category
\* names given to add_category: "", "X", "Y", "x" and the default "Other"
CategoryNameInputs == { <<>>, <<88>>, <<89>>, <<120>>, <<79, 116, 104, 101, 114>> }

\* an administrator and a plain user logging in and out and adding categories,
\* the store failing or not
NextCategory ==
    \/ Authenticate({1}, SessionUsers)
    \/ Logout({1})
    \/ AddCategory({1}, CategoryNameInputs, {0, 1})

SpecCategory == Init /\ [][NextCategory]_vars

\* ---------------------------------- the dashboard and the low-stock alert report
\* SELECT SUM(quantity) FROM products, NULL on an empty table
RECURSIVE SumQuantity(_, _)
SumQuantity(prods, ids) ==
    IF ids = {} THEN NULL
    ELSE LET i == CHOOSE x \in ids : \A y \in ids : x <= y
             rest == SumQuantity(prods, ids \ {i})
         IN Some(prods[i].quantity + (IF IsNull(rest) THEN 0 ELSE Val(rest)))

\* the dictionary of get_dashboard_summary: its stock_summary row (the counts
\* of recent movements, customers and suppliers and the top products are left
\* out)
DashboardSummary(prods) ==
    [stock_summary |->
        [total_products |-> Cardinality(DOMAIN prods),
         total_quantity |-> SumQuantity(prods, DOMAIN prods),
         total_value |-> SumStockValue(prods, DOMAIN prods),
         low_stock_count |->
             Cardinality({i \in DOMAIN prods : prods[i].quantity <= prods[i].min_stock_level}),
         out_of_stock_count |-> Cardinality({i \in DOMAIN prods : prods[i].quantity = 0})]]

\* get_dashboard_summary asks for no permission
get_dashboard_summary(p) ==
    /\ frames[p] = Idle
    /\ last' = Returned(p, "get_dashboard_summary", 0, DashboardSummary(products), "")
    /\ UNCHANGED <<products, product_seq, movements, categories, suppliers, supplier_seq, current_user, frames, now>>

\* (p.min_stock_level - p.quantity) as shortage
ShortageOf(row) == row.min_stock_level - row.quantity

\* ORDER BY shortage DESC, p.name: r1 sorts before r2
AlertBefore(r1, r2) ==
    \/ ShortageOf(r1) > ShortageOf(r2)
    \/ (ShortageOf(r1) = ShortageOf(r2) /\ TextLess(r1.name, r2.name))

\* the sorter of the report's query (rows that compare equal stay in rowid order)
RECURSIVE AlertInsertOrdered(_, _, _)
AlertInsertOrdered(prods, ordered, i) ==
    IF ordered = <<>> THEN <<i>>
    ELSE IF AlertBefore(prods[i], prods[Head(ordered)]) THEN <<i>> \o ordered
    ELSE <<Head(ordered)>> \o AlertInsertOrdered(prods, Tail(ordered), i)

RECURSIVE AlertOrderRows(_, _)
AlertOrderRows(prods, ids) ==
    IF ids = {} THEN <<>>
    ELSE LET i == CHOOSE x \in ids : \A y \in ids : y <= x
         IN AlertInsertOrdered(prods, AlertOrderRows(prods, ids \ {i}), i)

\* "if p['quantity'] > 0"
IsWarning(row) == row.quantity > 0

\* "if p['quantity'] == 0"
IsCritical(row) == row.quantity = 0

\* the dictionary of generate_low_stock_alert_report, its items as product ids
LowStockAlertReport(prods) ==
    LET low_stock_products ==
            AlertOrderRows(prods, {i \in DOMAIN prods :
                                      prods[i].quantity <= prods[i].min_stock_level})
        critical_alerts == SelectSeq(low_stock_products, LAMBDA i : IsCritical(prods[i]))
        warning_alerts == SelectSeq(low_stock_products, LAMBDA i : IsWarning(prods[i]))
    IN [summary |-> [total_alerts |-> Len(low_stock_products),
                     critical_alerts |-> Len(critical_alerts),
                     warning_alerts |-> Len(warning_alerts)],
        critical_items |-> critical_alerts,
        warning_items |-> warning_alerts,
        all_items |-> low_stock_products]

\* the empty dictionary {}
EmptyDict == <<>>

\* lines 173-175: without view_reports the report is {}
generate_low_stock_alert_report(p) ==
    /\ frames[p] = Idle
    /\ last' = Returned(p, "generate_low_stock_alert_report", 0,
                        IF has_permission(current_user[p], "view_reports")
                        THEN LowStockAlertReport(products) ELSE EmptyDict, "")
    /\ UNCHANGED <<products, product_seq, movements, categories, suppliers, supplier_seq, current_user, frames, now>>

GetDashboardSummary(procs) == \E p \in procs : get_dashboard_summary(p)

GenerateLowStockAlertReport(procs) == \E p \in procs : generate_low_stock_alert_report(p)

\* quantities and minimum levels a caller passes
ReportQtyInputs == { -1, 0, 2 }

ReportMinInputs == { -1, 0, 2 }

\* the administrator logging in and out, adding and adjusting products, and
\* every consumer of the low-stock and out-of-stock figures being called
NextReport ==
    \/ Authenticate({1}, Admins)
    \/ Logout({1})
    \/ AddProductPriced({1}, {<<97>>}, {5}, ReportQtyInputs, ReportMinInputs)
    \/ AdjustStock({1}, ReportQtyInputs, {NULL}, NoFailure)
    \/ GetStockStatistics({1})
    \/ GetLowStock({1})
    \/ GetDashboardSummary({1})
    \/ GenerateLowStockAlertReport({1})

SpecReport == Init /\ [][NextReport]_vars

\* ------------------------------------------------ who a movement is stamped with
\* the users of the first application: the administrator and a plain user
StampUsers1 == { u \in UserRows : u.role \in {"admin", "user"} }

\* the user of the second application: a manager
StampUsers2 == { u \in UserRows : u.role = "manager" }

\* two applications with different users logged in, the first one logging out
\* as well and adding the products, the statements of their add_product and
\* adjust_stock calls interleaved
NextStamp ==
    \/ Authenticate({1}, StampUsers1)
    \/ Authenticate({2}, StampUsers2)
    \/ Logout({1})
    \/ AddProductBegin({1}, {<<97>>}, {0, 1})
    \/ AddProductCheckSku
    \/ AddProductInsert
    \/ AddProductInsertMovement
    \/ AdjustStockBegin(Procs, {2}, {NULL})
    \/ AdjustStockUpdate
    \/ AdjustStockRecord

SpecStamp == Init /\ [][NextStamp]_vars

\* ------------------------------------------------- the status filters of the UI
\* str.lower() on ASCII codes, as LIKE compares
Lower(s) == [i \in 1..Len(s) |-> IF s[i] >= 65 /\ s[i] <= 90 THEN s[i] + 32 ELSE s[i]]

\* text LIKE '%term%', text a column that may be NULL
LikeContains(text, term) ==
    /\ ~IsNull(text)
    /\ \E i \in 1..(Len(Val(text)) - Len(term) + 1) :
          Lower(SubSeq(Val(text), i, i + Len(term) - 1)) = Lower(term)

\* the sorter of ORDER BY p.name (rows that compare equal stay in rowid order)
RECURSIVE ByNameInsert(_, _, _)
ByNameInsert(prods, ordered, i) ==
    IF ordered = <<>> THEN <<i>>
    ELSE IF TextLess(prods[i].name, prods[Head(ordered)].name) THEN <<i>> \o ordered
    ELSE <<Head(ordered)>> \o ByNameInsert(prods, Tail(ordered), i)

RECURSIVE ByNameOrder(_, _)
ByNameOrder(prods, ids) ==
    IF ids = {} THEN <<>>
    ELSE LET i == CHOOSE x \in ids : \A y \in ids : y <= x
         IN ByNameInsert(prods, ByNameOrder(prods, ids \ {i}), i)

\* stock_manager.get_all_products(search, category_id): the ids of the rows, in
\* the order of the query; "if search:" and "if category_id:" add the filters
get_all_products(prods, search, category_id) ==
    ByNameOrder(prods,
        {i \in DOMAIN prods :
            /\ search # <<>> =>
                 \/ LikeContains(Some(prods[i].name), search)
                 \/ LikeContains(prods[i].sku, search)
                 \/ LikeContains(prods[i].description, search)
            /\ (~IsNull(category_id) /\ Val(category_id) # 0) =>
                 prods[i].category_id = category_id})

\* ui/stock.py, refresh_product_list: the rows put into the tree, the category
\* filter being "All"
StockViewRows(prods, search_term, status_filter) ==
    LET all == get_all_products(prods, search_term, NULL)
    IN IF status_filter = "Low Stock"
       THEN SelectSeq(all, LAMBDA i : prods[i].quantity <= prods[i].min_stock_level)
       ELSE IF status_filter = "Out of Stock"
       THEN SelectSeq(all, LAMBDA i : prods[i].quantity = 0)
       ELSE IF status_filter = "In Stock"
       THEN SelectSeq(all, LAMBDA i : prods[i].quantity > prods[i].min_stock_level)
       ELSE all

\* ui/advanced_search.py, lines 301-311: the status filter lets the row through
SearchStatusKeeps(row, status_filter) ==
    LET quantity == row.quantity
        min_level == row.min_stock_level
    IN IF status_filter # "All"
       THEN IF status_filter = "In Stock" /\ quantity <= min_level THEN FALSE
            ELSE IF status_filter = "Low Stock" /\ (quantity = 0 \/ quantity > min_level)
            THEN FALSE
            ELSE IF status_filter = "Out of Stock" /\ quantity # 0 THEN FALSE
            ELSE TRUE
       ELSE TRUE

\* ui/advanced_search.py, search_products_data: the rows returned, the category
\* filter being "All" and the price entries empty
SearchRows(prods, search_term, status_filter) ==
    SelectSeq(get_all_products(prods, search_term, NULL),
              LAMBDA i : SearchStatusKeeps(prods[i], status_filter))

refresh_product_list(p, search_term, status_filter) ==
    /\ frames[p] = Idle
    /\ last' = Returned(p, "refresh_product_list", <<search_term, status_filter>>,
                        StockViewRows(products, search_term, status_filter), "")
    /\ UNCHANGED <<products, product_seq, movements, categories, suppliers, supplier_seq, current_user, frames, now>>

search_products_data(p, search_term, status_filter) ==
    /\ frames[p] = Idle
    /\ last' = Returned(p, "search_products_data", <<search_term, status_filter>>,
                        SearchRows(products, search_term, status_filter), "")
    /\ UNCHANGED <<products, product_seq, movements, categories, suppliers, supplier_seq, current_user, frames, now>>

MaxFilterRows == 2

\* rows of the product table the views show: quantities 0, 1, 2, minimum
\* levels 0, 1, names "a", "B"
FilterRowInputs ==
    { [quantity |-> q, min_stock_level |-> m, name |-> n] :
        q \in {0, 1, 2}, m \in {0, 1}, n \in { <<97>>, <<66>> } }

\* the values of the status combobox
StatusFilters == { "All", "In Stock", "Low Stock", "Out of Stock" }

\* search terms: the stock view searches with an empty box too, the advanced
\* search asks for a term
StockViewTerms == { <<>>, <<98>> }

SearchTerms == { <<98>> }

InitFilter ==
    /\ \E n \in 0..MaxFilterRows : \E rows \in [1..n -> FilterRowInputs] :
          /\ products = LowTable(rows)
          /\ product_seq = n
    /\ movements = <<>>
    /\ categories = DefaultCategories
    /\ suppliers = <<>>
    /\ supplier_seq = 0
    /\ current_user = [p \in Procs |-> NULL]
    /\ frames = [p \in Procs |-> Idle]
    /\ now = 0
    /\ last = Returned(0, "init", 0, NULL, "")

RefreshProductList ==
    \E search_term \in StockViewTerms, status_filter \in StatusFilters :
        refresh_product_list(1, search_term, status_filter)

SearchProductsData ==
    \E search_term \in SearchTerms, status_filter \in StatusFilters :
        search_products_data(1, search_term, status_filter)

NextFilter == RefreshProductList \/ SearchProductsData

SpecFilter == InitFilter /\ [][NextFilter]_vars

\* ================================================================ properties
\* sum of the 'in' movements of a product minus the sum of its 'out' movements
RECURSIVE NetOf(_, _)
NetOf(movs, product_id) ==
    IF movs = <<>> THEN 0
    ELSE LET m == Head(movs)
             signed == IF m.product_id # product_id THEN 0
                       ELSE IF m.movement_type = "in" THEN m.quantity
                       ELSE IF m.movement_type = "out" THEN 0 - m.quantity
                       ELSE 0
         IN signed + NetOf(Tail(movs), product_id)

HasMovement(movs, product_id) ==
    \E k \in 1..Len(movs) : movs[k].product_id = product_id

\* movs2 is movs1 with exactly the one row m appended
AppendsOne(movs1, movs2, m) == movs2 = movs1 \o <<m>>

\* every row of prods1 other than product_id is the same in prods2
OthersUnchanged(prods1, prods2, product_id) ==
    \A i \in DOMAIN prods1 \ {product_id} : i \in DOMAIN prods2 /\ prods2[i] = prods1[i]

\* C1: after any sequence of add_product (initial quantity >= 0) and
\* adjust_stock calls, the store never failing, every product's quantity is
\* the sum of its 'in' movements minus the sum of its 'out' movements.
C1_LedgerInvariant ==
    \A i \in DOMAIN products : products[i].quantity = NetOf(movements, i)

\* a product created with stock and then adjusted downwards
C1_Witness ==
    /\ last.op = "adjust_stock"
    /\ \E i \in DOMAIN products : \E a, b \in 1..Len(movements) :
          /\ movements[a].product_id = i /\ movements[a].movement_type = "in"
          /\ movements[b].product_id = i /\ movements[b].movement_type = "out"
          /\ products[i].quantity = movements[a].quantity - movements[b].quantity

\* C2: adjust_stock is atomic over its two writes: whatever write the store
\* fails on, a product whose quantity equals the net sum of its movements
\* before the call still does after it.
C2_AdjustStockAtomic ==
    [][ \A i \in DOMAIN products :
          ( /\ last'.op = "adjust_stock"
            /\ last'.id = i
            /\ products[i].quantity = NetOf(movements, i) )
          => ( i \in DOMAIN products'
               /\ products'[i].quantity = NetOf(movements', i) ) ]_vars

\* C3: add_product with quantity > 0 is atomic over its two writes: a call
\* never leaves a new product row with quantity > 0 without a movement, and
\* never returns the id of such a product.
C3_AddProductAtomic ==
    [][ last'.op = "add_product" =>
          /\ \A i \in DOMAIN products' \ DOMAIN products :
                products'[i].quantity > 0 => HasMovement(movements', i)
          /\ ~IsNull(last'.result) =>
                LET i == Val(last'.result)
                IN products'[i].quantity > 0 => HasMovement(movements', i) ]_vars

\* C4: a negative quantity is rejected: adjust_stock with new_quantity < 0
\* returns False and add_product with quantity < 0 returns None, and neither
\* writes a product row, changes a quantity or appends a movement.
C4_NegativeRejected ==
    [][ /\ last'.op = "adjust_stock" =>
            \A r \in Reasons, n \in QtyInputs :
               (n < 0 /\ adjust_stock(last'.proc, last'.id, n, r, 0))
               => (last'.result = FALSE /\ UNCHANGED <<products, movements>>)
        /\ last'.op = "add_product" =>
            \A name \in Names, category_id \in CategoryInputs, unit_price \in PriceInputs,
               min_stock_level \in MinInputs, sku \in SkuInputs, q \in QtyInputs :
               (q < 0 /\ add_product(last'.proc, name, category_id, NULL, unit_price, q,
                                     min_stock_level, NULL, sku, 0))
               => (IsNull(last'.result) /\ UNCHANGED <<products, movements>>) ]_vars

\* C6: delete_product returns False and leaves the product row in place when
\* the product has a movement row; called by a user who may delete, on an
\* existing product without movements, it removes that row (and no other)
\* and returns True.
C6_DeleteGuard ==
    [][ last'.op = "delete_product" =>
          LET i == last'.id
          IN /\ HasMovement(movements, i) =>
                  (last'.result = FALSE /\ products' = products)
             /\ ( /\ has_permission(current_user[last'.proc], "delete_stock")
                  /\ i \in DOMAIN products
                  /\ ~HasMovement(movements, i) )
                => ( /\ last'.result = TRUE
                     /\ DOMAIN products' = DOMAIN products \ {i}
                     /\ OthersUnchanged(products, products', i) ) ]_vars

\* a user who may delete was refused because the product has movements
C6_Witness ==
    /\ last.op = "delete_product"
    /\ last.result = FALSE
    /\ has_permission(current_user[last.proc], "delete_stock")
    /\ last.id \in DOMAIN products
    /\ HasMovement(movements, last.id)

\* C7: a successful adjust_stock(id, n, reason) on a product of quantity c,
\* n >= 0 and n # c, sets the quantity to n and appends exactly one movement
\* for the product: 'in' if n > c, 'out' if n < c, of quantity |n - c|, with
\* reference_id 'adjustment' and notes the reason, 'Stock adjustment' when
\* none (None or the empty text) is given.
C7_AdjustEffect ==
    [][ (last'.op = "adjust_stock" /\ last'.result = TRUE) =>
          \A product_id \in DOMAIN products \cap {last'.id}, n \in QtyInputs,
             r \in Reasons :
             ( /\ n >= 0
               /\ n # products[product_id].quantity
               /\ adjust_stock(last'.proc, product_id, n, r, 0) )
             => LET c == products[product_id].quantity
                    m == movements'[Len(movements')]
                IN /\ products'[product_id].quantity = n
                   /\ OthersUnchanged(products, products', product_id)
                   /\ Len(movements') = Len(movements) + 1
                   /\ AppendsOne(movements, movements', m)
                   /\ m.product_id = product_id
                   /\ m.movement_type = (IF n > c THEN "in" ELSE "out")
                   /\ m.quantity = (IF n > c THEN n - c ELSE c - n)
                   /\ m.reference_id = Some("adjustment")
                   /\ m.notes = (IF r = NULL \/ r = Some("") THEN Some("Stock adjustment")
                                 ELSE r) ]_vars

\* a product brought down by an adjustment for damage
C7_Witness ==
    /\ last.op = "adjust_stock"
    /\ last.result = TRUE
    /\ Len(movements) > 0
    /\ LET m == movements[Len(movements)]
       IN /\ m.product_id = last.id
          /\ m.movement_type = "out"
          /\ m.reference_id = Some("adjustment")
          /\ m.notes = Some("damage")
          /\ last.id \in DOMAIN products
          /\ products[last.id].quantity >= 0

\* C8: adjust_stock(id, n) with n the current quantity of the product, by a
\* user who may edit, returns True, appends no movement and leaves every
\* product row as it was, so that a second such call starts from the state
\* the first one started from.
C8_ZeroDeltaNoOp ==
    [][ ( /\ last'.op = "adjust_stock"
          /\ last'.id \in DOMAIN products
          /\ has_permission(current_user[last'.proc], "edit_stock") ) =>
          \A r \in Reasons :
             adjust_stock(last'.proc, last'.id, products[last'.id].quantity, r, 0)
             => ( /\ last'.result = TRUE
                  /\ movements' = movements
                  /\ products' = products ) ]_vars

\* a successful adjustment of an existing product that recorded nothing
C8_Witness ==
    /\ last.op = "adjust_stock"
    /\ last.result = TRUE
    /\ last.id \in DOMAIN products
    /\ \A k \in 1..Len(movements) : movements[k].reference_id # Some("adjustment")

\* C10: a successful add_product writes exactly one product row and at most
\* one movement row: one 'in' movement of the initial quantity with
\* reference_id 'Initial stock' when that quantity is > 0, none when it is 0.
C10_AddProductWrites ==
    [][ (last'.op = "add_product" /\ ~IsNull(last'.result)) =>
          \A name \in Names, category_id \in CategoryInputs, unit_price \in PriceInputs,
             min_stock_level \in MinInputs, sku \in SkuInputs, q \in QtyInputs :
             add_product(last'.proc, name, category_id, NULL, unit_price, q,
                         min_stock_level, NULL, sku, 0)
             => LET i == Val(last'.result)
                IN /\ i \notin DOMAIN products
                   /\ DOMAIN products' = DOMAIN products \cup {i}
                   /\ OthersUnchanged(products, products', i)
                   /\ products'[i].quantity = q
                   /\ Len(movements') <= Len(movements) + 1
                   /\ q > 0 =>
                        /\ Len(movements') = Len(movements) + 1
                        /\ LET m == movements'[Len(movements')]
                           IN /\ AppendsOne(movements, movements', m)
                              /\ m.product_id = i
                              /\ m.movement_type = "in"
                              /\ m.quantity = q
                              /\ m.reference_id = Some("Initial stock")
                   /\ q = 0 => movements' = movements ]_vars

\* a product created with stock, its initial movement last in the table
C10_Witness ==
    /\ last.op = "add_product"
    /\ ~IsNull(last.result)
    /\ Len(movements) > 0
    /\ LET m == movements[Len(movements)]
       IN /\ m.product_id = Val(last.result)
          /\ m.reference_id = Some("Initial stock")
          /\ Val(last.result) \in DOMAIN products
          /\ products[Val(last.result)].quantity = m.quantity

\* no two product rows carry the same SKU text
SkuDistinct(prods) ==
    \A i, j \in DOMAIN prods :
        (i # j /\ ~IsNull(prods[i].sku)) => prods[i].sku # prods[j].sku

\* C5: in every state no two product rows carry the same SKU, and a step of
\* add_product that looks up or inserts a SKU an existing product carries
\* returns None and writes nothing, also when two add_product calls with the
\* same SKU have both passed the existence check before either inserts.
C5_SkuUnique ==
    /\ []SkuDistinct(products)
    /\ [][ \A p \in Procs :
              ( /\ frames[p].pc \in {"check_sku", "insert_product"}
                /\ frames'[p] # frames[p]
                /\ \E i \in DOMAIN products : products[i].sku = Some(frames[p].sku) )
              => ( /\ frames'[p] = Idle
                   /\ last'.proc = p
                   /\ last'.op = "add_product"
                   /\ IsNull(last'.result)
                   /\ UNCHANGED <<products, product_seq, movements>> ) ]_vars

\* an add_product that passed the existence check was refused by the UNIQUE
\* constraint, the product of the other application being in place
C5_Witness ==
    /\ last.op = "add_product"
    /\ IsNull(last.result)
    /\ last.printed = "Add product error"
    /\ Cardinality(DOMAIN products) = 1

\* a sorts before b or equals it, byte by byte
TextLeq(a, b) ==
    \/ a = b
    \/ \E k \in 1..(Len(b)) :
          /\ \A j \in 1..(k - 1) : j <= Len(a) /\ a[j] = b[j]
          /\ (k = Len(a) + 1 \/ (k <= Len(a) /\ a[k] < b[k]))

Range(f) == {f[k] : k \in DOMAIN f}

\* C9: get_low_stock_products returns exactly the products with
\* quantity <= min_stock_level, each once, by ascending
\* quantity - min_stock_level and then by name; of the four products
\* (0,5), (5,5), (6,5), (10,0) it returns the first two, (0,5) first.
C9_LowStockQuery ==
    last.op = "get_low_stock_products" =>
       LET res == last.result
       IN /\ Range(res) = {i \in DOMAIN products :
                              products[i].quantity <= products[i].min_stock_level}
          /\ \A j, k \in 1..Len(res) : j # k => res[j] # res[k]
          /\ \A k \in 1..(Len(res) - 1) :
                LET a == products[res[k]]
                    b == products[res[k + 1]]
                    da == a.quantity - a.min_stock_level
                    db == b.quantity - b.min_stock_level
                IN da < db \/ (da = db /\ TextLeq(a.name, b.name))
          /\ ( /\ DOMAIN products = 1..4
               /\ [i \in 1..4 |-> products[i].quantity] = <<0, 5, 6, 10>>
               /\ [i \in 1..4 |-> products[i].min_stock_level] = <<5, 5, 5, 0>> )
             => res = <<1, 2>>

\* the query answered on the four products of the example
C9_Witness ==
    /\ last.op = "get_low_stock_products"
    /\ DOMAIN products = 1..4
    /\ [i \in 1..4 |-> products[i].quantity] = <<0, 5, 6, 10>>
    /\ [i \in 1..4 |-> products[i].min_stock_level] = <<5, 5, 5, 0>>
    /\ last.result = <<1, 2>>

\* the columns update_product may write
UpdatableColumns ==
    {"name", "category_id", "sku", "description", "unit_price", "min_stock_level",
     "supplier_id", "updated_at"}

\* C11: update_product never changes stock: whatever the keyword arguments, a
\* 'quantity' key among them, the movement table and every quantity stay as
\* they were, no row appears or disappears, and only name, category_id, sku,
\* description, unit_price, min_stock_level, supplier_id and updated_at of the
\* addressed product can differ.
C11_UpdateFrame ==
    [][ last'.op = "update_product" =>
          /\ movements' = movements
          /\ DOMAIN products' = DOMAIN products
          /\ \A i \in DOMAIN products :
                /\ products'[i].quantity = products[i].quantity
                /\ i # last'.id => products'[i] = products[i]
                /\ \A f \in DOMAIN products[i] \ UpdatableColumns :
                      products'[i][f] = products[i][f] ]_vars

\* an update carrying name and quantity went through: the name is the new
\* one, the quantity is not the one passed
C11_Witness ==
    /\ last.op = "update_product"
    /\ last.result = TRUE
    /\ last.id \in DOMAIN products
    /\ products[last.id].name = <<99>>
    /\ products[last.id].quantity # 9

\* C12: update_product returns False and leaves every product row unchanged
\* when none of the keyword arguments is a recognized field or when no
\* product has the given id.
C12_UpdateRejected ==
    [][ last'.op = "update_product" =>
          \A kwargs \in UpdateKwargs :
             ( /\ update_product(last'.proc, last'.id, kwargs, 0)
               /\ \/ \A f \in DOMAIN kwargs :
                        f \notin {"name", "category_id", "sku", "description",
                                  "unit_price", "min_stock_level", "supplier_id"}
                  \/ last'.id \notin DOMAIN products )
             => (last'.result = FALSE /\ products' = products) ]_vars

\* the administrator's update of an id no product has was refused
C12_Witness ==
    /\ last.op = "update_product"
    /\ last.result = FALSE
    /\ has_permission(current_user[last.proc], "edit_stock")
    /\ products # <<>>
    /\ last.id \notin DOMAIN products

\* nobody is logged in, or the user logged in is a plain user asking for a
\* capability that changes stock
LacksCapability(user, permission) ==
    \/ user = NULL
    \/ /\ user # NULL
       /\ Val(user).role = "user"
       /\ permission \in {"add_stock", "edit_stock", "delete_stock"}

\* the capability each mutating operation requires
RequiredCapability(op) ==
    IF op = "add_product" THEN "add_stock"
    ELSE IF op = "delete_product" THEN "delete_stock"
    ELSE "edit_stock"

\* C13: a mutating operation called while nobody is logged in, or by a user
\* without the capability it requires (add_stock for add_product, edit_stock
\* for update_product, adjust_stock and add_category, delete_stock for
\* delete_product), returns its failure value (None or False) and writes
\* nothing to products, movements or categories, whatever its arguments.
C13_PermissionFirst ==
    [][ ( /\ last'.op \in {"add_product", "update_product", "adjust_stock",
                           "delete_product", "add_category"}
          /\ LacksCapability(current_user[last'.proc], RequiredCapability(last'.op)) )
        => /\ last'.op \in {"add_product", "add_category"} => last'.result = NULL
           /\ last'.op \in {"update_product", "adjust_stock", "delete_product"}
                 => last'.result = FALSE
           /\ last'.printed = ""
           /\ UNCHANGED <<products, product_seq, movements, categories>> ]_vars

\* a plain user was refused the deletion of a product that exists and has no
\* movement
C13_Witness ==
    /\ last.op = "delete_product"
    /\ last.result = FALSE
    /\ current_user[last.proc] # NULL
    /\ Val(current_user[last.proc]).role = "user"
    /\ last.id \in DOMAIN products
    /\ ~HasMovement(movements, last.id)

\* C14: the movement log is append-only: no call of add_product,
\* update_product, delete_product, adjust_stock or record_stock_movement
\* modifies or removes a movement row once written, so the log of a state is
\* a prefix of the log of every later state.
C14_AppendOnly ==
    [][ /\ Len(movements') >= Len(movements)
        /\ \A k \in 1..Len(movements) : movements'[k] = movements[k] ]_vars

\* a product was deleted while the log held two movements
C14_Witness ==
    /\ last.op = "delete_product"
    /\ last.result = TRUE
    /\ Len(movements) >= 2

\* C15: after any sequence of add_product, update_product, adjust_stock and
\* delete_product calls, one after the other, every movement row refers to a
\* product row that exists.
C15_NoOrphans ==
    \A k \in 1..Len(movements) : movements[k].product_id \in DOMAIN products

\* a product was deleted before, and the deletion of one with a movement has
\* just been refused
C15_Witness ==
    /\ last.op = "delete_product"
    /\ last.result = FALSE
    /\ last.printed = ""
    /\ last.id \in DOMAIN products
    /\ HasMovement(movements, last.id)
    /\ product_seq > Cardinality(DOMAIN products)

\* C16: every movement row written by add_product or adjust_stock has
\* movement_type 'in' or 'out' and a quantity > 0, whatever quantity the
\* call was given (zero and negative ones included).
C16_MovementWellFormed ==
    \A k \in 1..Len(movements) :
        /\ movements[k].movement_type \in {"in", "out"}
        /\ movements[k].quantity > 0

\* an adjustment to a negative quantity has written its movement
C16_Witness ==
    /\ last.op = "adjust_stock"
    /\ last.result = TRUE
    /\ last.id \in DOMAIN products
    /\ products[last.id].quantity < 0
    /\ Len(movements) > 0
    /\ movements[Len(movements)].product_id = last.id
    /\ movements[Len(movements)].reference_id = Some("adjustment")

\* C17: delete_supplier(id) returns False and leaves the supplier row in
\* place while a product has supplier_id = id, and no call of delete_supplier
\* modifies or removes a product row.
C17_SupplierDeleteGuard ==
    [][ last'.op = "delete_supplier" =>
          /\ products' = products
          /\ (\E i \in DOMAIN products : products[i].supplier_id = Some(last'.id))
                => (last'.result = FALSE /\ suppliers' = suppliers) ]_vars

\* the deletion of an existing supplier was refused, a product referring to it
C17_Witness ==
    /\ last.op = "delete_supplier"
    /\ last.result = FALSE
    /\ last.id \in DOMAIN suppliers
    /\ \E i \in DOMAIN products : products[i].supplier_id = Some(last.id)

\* C18: get_stock_movements(product_id, limit) returns at most limit
\* movements, those of the given product when one is given and of all
\* products otherwise, most recent first: a movement appended later never
\* comes after one appended earlier, and the rows returned are the limit
\* most recently appended ones.
C18_MostRecentFirst ==
    [][ last'.op = "get_stock_movements" =>
          \A product_id \in HistoryOfInputs, limit \in LimitInputs :
             get_stock_movements(last'.proc, product_id, limit)
             => LET res == last'.result
                    all == {k \in 1..Len(movements) :
                               product_id # NULL => movements[k].product_id = Val(product_id)}
                IN /\ Len(res) <= limit
                   /\ Range(res) \subseteq all
                   /\ \A j, k \in 1..Len(res) : j < k => res[j] > res[k]
                   /\ Len(res) = limit \/ Range(res) = all
                   /\ \A k \in all \ Range(res) : \A j \in 1..Len(res) : k < res[j] ]_vars

\* C19: out-of-stock is a subset of low-stock: in every state reached through
\* add_product, update_product and adjust_stock a product with quantity 0 has
\* quantity <= min_stock_level, get_stock_statistics reports
\* out_of_stock_count <= low_stock_count, and get_low_stock_products returns
\* every product with quantity 0.
C19_OutOfStockIsLowStock ==
    /\ \A i \in DOMAIN products :
          products[i].quantity = 0 => products[i].quantity <= products[i].min_stock_level
    /\ last.op = "get_stock_statistics" =>
          last.result.out_of_stock_count <= last.result.low_stock_count
    /\ last.op = "get_low_stock_products" =>
          {i \in DOMAIN products : products[i].quantity = 0} \subseteq Range(last.result)

\* sum of quantity * unit_price over the rows ids of prods
RECURSIVE ValueOver(_, _)
ValueOver(prods, ids) ==
    IF ids = {} THEN 0
    ELSE LET i == CHOOSE x \in ids : TRUE
         IN prods[i].quantity * prods[i].unit_price + ValueOver(prods, ids \ {i})

\* the product table holds a row of quantity 2 at price 10 and one of
\* quantity 3 at price 5, and no other
IsExampleTable(prods) ==
    \E i, j \in DOMAIN prods :
        /\ DOMAIN prods = {i, j} /\ i # j
        /\ prods[i].quantity = 2 /\ prods[i].unit_price = 10
        /\ prods[j].quantity = 3 /\ prods[j].unit_price = 5

\* C20: get_stock_statistics is computed from the current product table:
\* total_products is the number of rows, total_stock_value the sum of
\* quantity * unit_price (0 without products, 35 for quantity 2 at price 10
\* and quantity 3 at price 5), low_stock_count the number of rows with
\* quantity <= min_stock_level and out_of_stock_count the number with
\* quantity 0, after any sequence of mutations.
C20_Statistics ==
    last.op = "get_stock_statistics" =>
       LET stats == last.result
       IN /\ stats.total_products = Cardinality(DOMAIN products)
          /\ stats.total_stock_value = ValueOver(products, DOMAIN products)
          /\ DOMAIN products = {} => stats.total_stock_value = 0
          /\ IsExampleTable(products) => stats.total_stock_value = 35
          /\ stats.low_stock_count =
                Cardinality({i \in DOMAIN products :
                                products[i].quantity <= products[i].min_stock_level})
          /\ stats.out_of_stock_count =
                Cardinality({i \in DOMAIN products : products[i].quantity = 0})

\* the statistics read on the two products of the example
C20_Witness ==
    /\ last.op = "get_stock_statistics"
    /\ IsExampleTable(products)
    /\ last.result.total_products = 2
    /\ last.result.total_stock_value = 35

\* C21: adjust_stock on an id that matches no product returns False, changes
\* no product row and appends no movement row.
C21_AdjustUnknownId ==
    [][ (last'.op = "adjust_stock" /\ last'.id \notin DOMAIN products)
        => ( /\ last'.result = FALSE
             /\ products' = products
             /\ movements' = movements ) ]_vars

\* the administrator's adjustment of an id no product has was refused, other
\* products being there
C21_Witness ==
    /\ last.op = "adjust_stock"
    /\ last.result = FALSE
    /\ has_permission(current_user[last.proc], "edit_stock")
    /\ products # <<>>
    /\ last.id \notin DOMAIN products

\* C22: record_stock_movement only appends: a successful call adds exactly
\* one movement row, with the product_id, type, quantity, reference and notes
\* it was given, and leaves every product row as it was (quantity and
\* updated_at of the product included).
C22_RecordOnlyAppends ==
    [][ (last'.op = "record_stock_movement" /\ last'.result # NULL) =>
          \A movement_type \in {"in", "out"}, quantity \in {1}, text \in RecordTextInputs :
             call_record_stock_movement(last'.proc, last'.id, movement_type, quantity,
                                        text.reference_id, text.notes, 0)
             => /\ products' = products
                /\ Len(movements') = Len(movements) + 1
                /\ SubSeq(movements', 1, Len(movements)) = movements
                /\ last'.result = Some(Len(movements'))
                /\ LET m == movements'[Len(movements')]
                   IN /\ m.product_id = last'.id
                      /\ m.movement_type = movement_type
                      /\ m.quantity = quantity
                      /\ m.reference_id = text.reference_id
                      /\ m.notes = text.notes ]_vars

\* an 'in' movement with a reference was recorded for a product, whose
\* quantity is still 0
C22_Witness ==
    /\ last.op = "record_stock_movement"
    /\ last.result # NULL
    /\ last.id \in DOMAIN products
    /\ products[last.id].quantity = 0
    /\ movements[Len(movements)].product_id = last.id
    /\ movements[Len(movements)].movement_type = "in"
    /\ movements[Len(movements)].reference_id = Some("PO-1")

\* C23: two adjust_stock calls on one product that both read its quantity
\* before either writes lose an update: nothing is checked again at write
\* time, so each call sets the quantity to its own new_quantity, returns
\* True and appends a movement whose type and quantity come from the
\* quantity it read, and a state is reached (C23_Witness) in which the
\* product's quantity differs from the net sum of its movements.
C23_LostUpdate ==
    [][ \A p \in Procs :
          /\ ( /\ frames[p].pc = "update_quantity"
               /\ frames'[p] # frames[p]
               /\ frames[p].product_id \in DOMAIN products )
             => products'[frames[p].product_id].quantity = frames[p].new_quantity
          /\ ( /\ frames[p].pc = "record_adjustment"
               /\ frames'[p] # frames[p] )
             => LET f == frames[p]
                    m == movements'[Len(movements')]
                IN /\ frames'[p] = Idle
                   /\ last'.proc = p
                   /\ last'.op = "adjust_stock"
                   /\ last'.result = TRUE
                   /\ AppendsOne(movements, movements', m)
                   /\ m.product_id = f.product_id
                   /\ m.movement_type =
                         (IF f.new_quantity > f.current_quantity THEN "in" ELSE "out")
                   /\ m.quantity = Abs(f.new_quantity - f.current_quantity) ]_vars

\* both calls have returned: two 'in' adjustments computed from the same
\* quantity 0 are in the log, the quantity is that of one of them and not
\* their sum
C23_Witness ==
    /\ \A p \in Procs : frames[p] = Idle
    /\ last.op = "adjust_stock"
    /\ last.result = TRUE
    /\ last.id \in DOMAIN products
    /\ Len(movements) = 2
    /\ \A k \in 1..2 : /\ movements[k].product_id = last.id
                       /\ movements[k].reference_id = Some("adjustment")
                       /\ movements[k].movement_type = "in"
    /\ products[last.id].quantity \in {movements[1].quantity, movements[2].quantity}
    /\ products[last.id].quantity # NetOf(movements, last.id)

\* C30: the delete guard holds under interleaving: with the statements of
\* delete_product(id) and adjust_stock(id, n) on a product without movement
\* interleaved, no movement row refers to a product row that was deleted.
C30_DeleteGuardInterleaved ==
    \A k \in 1..Len(movements) :
        ~ ( /\ movements[k].product_id \in 1..product_seq
            /\ movements[k].product_id \notin DOMAIN products )


\* the first n characters of s, 0 <= n
FirstChars(s, n) == [i \in 1..(IF Len(s) < n THEN Len(s) ELSE n) |-> s[i]]

\* the alphanumeric characters of s in their order, uppercased
AlnumUpper(s) == SelectSeq(Upper(s), LAMBDA c : IsAlnum(c))

\* PREFIX of a SKU: three characters of the category uppercased, or "GEN"
SkuPrefix(category) ==
    IF category = <<>> THEN <<71, 69, 78>> ELSE Upper(FirstChars(category, 3))

\* C24 as stated: generate_sku returns PREFIX-BODY-SUFFIX, BODY being the first
\* up-to-4 alphanumeric characters of the name once its other characters are
\* dropped, uppercased ("A-B-C-D" gives "ABCD")
C24_BodyFirstFourAlnum ==
    last.op = "generate_sku" =>
        Val(last.result) = SkuPrefix(last.id[2]) \o <<45>>
                             \o FirstChars(AlnumUpper(last.id[1]), 4) \o <<45>>
                             \o Strftime_mdHM(now)

\* C24 amended: generate_sku returns PREFIX-BODY-SUFFIX, BODY being the
\* alphanumeric characters among the first 4 characters of the name, uppercased
\* ("A-B-C-D" gives "AB")
C24_BodyAlnumOfFirstFour ==
    last.op = "generate_sku" =>
        Val(last.result) = SkuPrefix(last.id[2]) \o <<45>>
                             \o AlnumUpper(FirstChars(last.id[1], 4)) \o <<45>>
                             \o Strftime_mdHM(now)

\* generate_sku("a-1-a", "Food") at 17:32 of January 9th returned "FOO-A1-01091732"
C24_Witness ==
    /\ last.op = "generate_sku"
    /\ last.id = << <<97, 45, 49, 45, 97>>, <<70, 111, 111, 100>> >>
    /\ now = 754321
    /\ Val(last.result) = <<70, 79, 79, 45, 65, 49, 45, 48, 49, 48, 57, 49, 55, 51, 50>>


\* every category of the table has a non-empty name no other category has
CategoryNamesDistinctNonEmpty(cats) ==
    /\ \A i \in DOMAIN cats : cats[i].name # <<>>
    /\ \A i, j \in DOMAIN cats : cats[i].name = cats[j].name => i = j

\* C25: category names stay unique and non-empty under add_category: after every
\* call each category has a non-empty name different from every other one's, and
\* a call with a name that already exists returns None and leaves the table as
\* it was
C25_CategoryNamesUniqueNonEmpty ==
    [][ \A name \in CategoryNameInputs, failure \in {0, 1} :
          add_category(1, name, NULL, failure) =>
            /\ CategoryNamesDistinctNonEmpty(categories')
            /\ (\E i \in DOMAIN categories : categories[i].name = name) =>
                 (last'.result = NULL /\ categories' = categories) ]_vars


\* C26: the low-stock and out-of-stock figures agree across consumers: in every
\* reachable state the number of rows of get_low_stock_products, the
\* low_stock_count of get_stock_statistics and of get_dashboard_summary and the
\* total_alerts of the alert report are equal, and the out_of_stock_count of
\* get_stock_statistics equals that of get_dashboard_summary and the report's
\* critical_alerts.
C26_FiguresAgree ==
    LET rows == LowStockRows(products)
        stats == StockStatistics(products)
        dash == DashboardSummary(products).stock_summary
        alert == LowStockAlertReport(products).summary
    IN /\ Len(rows) = stats.low_stock_count
       /\ stats.low_stock_count = dash.low_stock_count
       /\ dash.low_stock_count = alert.total_alerts
       /\ stats.out_of_stock_count = dash.out_of_stock_count
       /\ dash.out_of_stock_count = alert.critical_alerts

\* C29: the alert report partitions its items: every item of all_items is in
\* exactly one of critical_items and warning_items, so total_alerts =
\* critical_alerts + warning_alerts.
C29_AlertsPartitioned ==
    (last.op = "generate_low_stock_alert_report" /\ last.result # EmptyDict) =>
        LET r == last.result
        IN /\ \A k \in 1..Len(r.all_items) :
                  (r.all_items[k] \in Range(r.critical_items))
                      # (r.all_items[k] \in Range(r.warning_items))
           /\ r.summary.total_alerts = r.summary.critical_alerts + r.summary.warning_alerts


\* C27: every movement appended by add_product or adjust_stock is stamped with
\* the acting user: the session of an application does not change while one of
\* its calls is under way, and the user_id of the row a call appends is the id
\* of the user logged in on that application, never null.
C27_MovementStampedWithActor ==
    [][ /\ \A p \in Procs : frames[p] # Idle => current_user'[p] = current_user[p]
        /\ Len(movements') = Len(movements) + 1 =>
             LET p == last'.proc
                 row == movements'[Len(movements')]
             IN /\ last'.op \in {"add_product", "adjust_stock"}
                /\ ~IsNull(current_user[p])
                /\ ~IsNull(row.user_id)
                /\ Val(row.user_id) = Val(current_user[p]).id ]_vars

\* the administrator's add_product and the manager's adjust_stock have each
\* left a movement, stamped 1 and 3
C27_Witness ==
    /\ Len(movements) = 2
    /\ movements[1].user_id = Some(1)
    /\ movements[2].user_id = Some(3)
    /\ last.op = "adjust_stock" /\ last.proc = 2 /\ last.result = TRUE


\* the rows of get_all_products that satisfy keep, as a set
RowsWhere(prods, search_term, keep(_)) ==
    {i \in Range(get_all_products(prods, search_term, NULL)) : keep(prods[i])}

\* C28: the 'Low Stock' filter selects the products whose quantity is at or
\* below their minimum level, and the same products in the stock view and in
\* the advanced search; 'In Stock' selects those with quantity above the
\* minimum level and 'Out of Stock' those with zero quantity.
C28_StatusFiltersAgree ==
    last.op \in {"refresh_product_list", "search_products_data"} =>
         LET term == last.id[1]
             status == last.id[2]
             shown == Range(last.result)
         IN /\ status = "Low Stock" =>
                 /\ shown = RowsWhere(products, term, LAMBDA r : r.quantity <= r.min_stock_level)
                 /\ Range(StockViewRows(products, term, status))
                       = Range(SearchRows(products, term, status))
            /\ status = "In Stock" =>
                 shown = RowsWhere(products, term, LAMBDA r : r.quantity > r.min_stock_level)
            /\ status = "Out of Stock" =>
                 shown = RowsWhere(products, term, LAMBDA r : r.quantity = 0)
====
